---- MODULE Spec2Model ----
(***************************************************************************)
(* Model of the Mixture-of-Agents filter pipeline, mixture-of-agents.py.   *)
(*                                                                         *)
(* A Python str is modelled as a sequence of atoms: concatenation and      *)
(* f-string interpolation are \o, a literal piece of a template is one     *)
(* atom, an opaque text (a backend identifier, a completion) is one atom.  *)
(* The HTTP backend is the environment: every call ends in one of the      *)
(* outcomes of Outcomes.                                                   *)
(***************************************************************************)
EXTENDS Integers, Sequences, FiniteSets, TLC

\* ------------------------------------------------------------- bounds
MaxModels == 2      \* longest available_models list explored
MaxLayers == 3      \* largest num_layers explored
MaxAgents == 2      \* largest num_agents_per_layer explored
MaxFailures == 2    \* failed attempts the backend injects into one run
MaxUpdates == 1     \* valve updates the host makes while one run is in flight

\* ------------------------------------------------------------- inputs
ModelIds == {"A", "G"}
AggregatorIds == {"", "G"}
ApiBases == {"", "http://ollama/v1"}
ApiKeys == {"", "k"}
Prompts == {<<"hello">>}
Texts == {<<"ans">>}

\* Outcomes of the single HTTP attempt of query_ollama.
\*   ok          2xx, JSON body with choices[0].message.content
\*   transport   requests.post raises (ConnectionError, Timeout, ...)
\*   http_status raise_for_status raises HTTPError
\*   not_json    2xx whose body is not JSON: response.json() raises
\*   no_content  2xx JSON body lacking choices[0].message.content
Outcomes == {"ok", "transport", "http_status", "not_json", "no_content"}

Min(a, b) == IF a <= b THEN a ELSE b

SeqsUpTo(S, n) == UNION {[1..k -> S] : k \in 0..n}

\* f"{x}" of a str held as one atom: the empty str contributes nothing.
Str(x) == IF x = "" THEN <<>> ELSE <<x>>

\* ------------------------------------------------------------- Valves
Valves ==
    [available_models : SeqsUpTo(ModelIds, MaxModels),
     aggregator_model : AggregatorIds,
     openai_api_base : ApiBases,
     api_key : {""},
     num_layers : 0..MaxLayers,
     num_agents_per_layer : -1..MaxAgents]

\* ------------------------------------------------------------- state
VARIABLES
    valves,                 \* self.valves
    pc,                     \* position of the moa_process invocation
    prompt,                 \* moa_process argument
    n_layers,               \* range(self.valves.num_layers), evaluated once
    layer,                  \* loop variable of the layer loop
    layer_agents,           \* sample of the current layer
    agent_i,                \* 1-based position in layer_agents
    layer_outputs,          \* local list of lists
    current_layer_outputs,  \* local list
    calls,                  \* requests posted so far, in order
    replies,                \* per finished call: how query_ollama ended
    last_query,             \* how the last finished query_ollama ended
    result,                 \* what moa_process returned
    start_valves,           \* self.valves when moa_process was entered
    updates                 \* valve updates made during the current run

vars == <<valves, pc, prompt, n_layers, layer, layer_agents, agent_i,
          layer_outputs, current_layer_outputs, calls, replies, last_query,
          result, start_valves, updates>>

NoResult == <<"<none>">>
ConfigError == <<"Error: Available models, aggregator model, or API base URL not set.">>

\* --------------------------------------------------- AgentSelector

\* Variant: the draw puts each pick back (random.choices).
RandomSample_WithReplacement(population, k) ==
    {[i \in 1..k |-> population[f[i]]] : f \in [1..k -> 1..Len(population)]}

\* random.sample(population, k): k positions drawn without replacement, in
\* draw order; ValueError when k is negative or exceeds the population.
RandomSample(population, k) ==
    {[i \in 1..k |-> population[f[i]]] :
        f \in {g \in [1..k -> 1..Len(population)] :
                 \A i, j \in 1..k : i # j => g[i] # g[j]}}

\* --------------------------------------------------- PromptComposer
RECURSIVE Enumerated(_, _, _)
\* for i, response in enumerate(responses, 1): s += f"{indent}{i}. {response}\n\n"
Enumerated(indent, responses, n) ==
    IF n = 0 THEN <<>>
    ELSE Enumerated(indent, responses, n - 1)
           \o indent \o <<ToString(n), ". ">> \o responses[n] \o <<"\n\n">>

AggregatorHead(original_prompt) ==
    <<"Original prompt: ">> \o original_prompt \o <<"\n\nPrevious responses:\n">>

AggregatorTail ==
    <<"Based on the above responses and the original prompt, provide an improved and comprehensive answer:">>

create_aggregator_prompt(original_prompt, previous_responses) ==
    AggregatorHead(original_prompt)
      \o Enumerated(<<>>, previous_responses, Len(previous_responses))
      \o AggregatorTail

RECURSIVE LayersText(_, _)
\* for layer, responses in enumerate(all_layer_outputs, 1): ...
LayersText(all_layer_outputs, n) ==
    IF n = 0 THEN <<>>
    ELSE LayersText(all_layer_outputs, n - 1)
           \o <<"Layer ", ToString(n), ":\n">>
           \o Enumerated(<<"  ">>, all_layer_outputs[n], Len(all_layer_outputs[n]))

FinalHead(original_prompt) ==
    <<"Original prompt: ">> \o original_prompt \o <<"\n\nResponses from all layers:\n">>

FinalTail(original_prompt) ==
    <<"Considering all the responses from different layers and the original prompt '">>
      \o original_prompt
      \o <<"', provide a final, comprehensive answer that strictly adheres to the original request:">>

\* Variant: only the last layer reaches the final prompt.
create_final_aggregator_prompt_LastLayer(original_prompt, all_layer_outputs) ==
    FinalHead(original_prompt)
      \o LayersText(IF all_layer_outputs = <<>> THEN <<>>
                    ELSE <<all_layer_outputs[Len(all_layer_outputs)]>>,
                    Min(Len(all_layer_outputs), 1))
      \o FinalTail(original_prompt)

create_final_aggregator_prompt(original_prompt, all_layer_outputs) ==
    FinalHead(original_prompt)
      \o LayersText(all_layer_outputs, Len(all_layer_outputs))
      \o FinalTail(original_prompt)

\* --------------------------------------------------- ModelClient
Placeholder(model) == <<"Error: Unable to query model ">> \o Str(model)

\* Variant: the request is built from the valves captured at entry.
Request_Snapshot(v, model, content, stage, at_layer, slot) ==
    [url |-> Str(start_valves.openai_api_base) \o <<"/chat/completions">>,
     authorization |-> <<"Bearer ">> \o Str(start_valves.api_key),
     model |-> model, stream |-> FALSE, content |-> content,
     stage |-> stage, layer |-> at_layer, slot |-> slot]

\* The request query_ollama posts; stage, at_layer and slot record where in
\* moa_process the call was made.
Request(v, model, content, stage, at_layer, slot) ==
    [url |-> Str(v.openai_api_base) \o <<"/chat/completions">>,
     authorization |-> <<"Bearer ">> \o Str(v.api_key),
     model |-> model, stream |-> FALSE, content |-> content,
     stage |-> stage, layer |-> at_layer, slot |-> slot]

Returned(value) == [kind |-> "return", value |-> value]
Raised(exc) == [kind |-> "raise", value |-> <<exc>>]

\* How the try/except of query_ollama ends for one outcome of the attempt.
\* Only requests.RequestException is caught: ConnectionError and Timeout
\* from post, HTTPError from raise_for_status and the JSONDecodeError that
\* response.json() raises on a body that is not JSON are such exceptions.
\* A key or index missing from a parsed payload raises KeyError,
\* IndexError or TypeError, which are not.
query_ollama(model, outcome, text) ==
    CASE outcome = "ok" -> {Returned(text)}
      [] outcome \in {"transport", "http_status", "not_json"} ->
            {Returned(Placeholder(model))}
      [] outcome = "no_content" -> {Raised("KeyError")}

NoQuery == [model |-> "", outcome |-> "none", end |-> Returned(<<>>)]

\* --------------------------------------------------- LayerOrchestrator
Init ==
    /\ valves \in Valves
    /\ pc = "idle"
    /\ prompt = <<>>
    /\ n_layers = 0
    /\ layer = 0
    /\ layer_agents = <<>>
    /\ agent_i = 0
    /\ layer_outputs = <<>>
    /\ current_layer_outputs = <<>>
    /\ calls = <<>>
    /\ replies = <<>>
    /\ last_query = NoQuery
    /\ result = NoResult
    /\ start_valves = valves
    /\ updates = 0

\* Variant: the endpoint base address is not checked.
ConfigMissing_NoBase(v) ==
    \/ v.available_models = <<>>
    \/ v.aggregator_model = ""

\* line 90: the precondition of a run.
ConfigMissing(v) ==
    \/ v.available_models = <<>>
    \/ v.aggregator_model = ""
    \/ v.openai_api_base = ""

Done == pc \in {"idle", "returned", "raised"}

\* moa_process, lines 89-93: a new invocation; the precondition check and
\* the fresh history. Nothing local to an earlier invocation survives.
MoaCheck ==
    /\ Done
    /\ \E p \in Prompts : prompt' = p
    /\ start_valves' = valves
    /\ IF ConfigMissing(valves)
       THEN /\ result' = ConfigError
            /\ pc' = "returned"
       ELSE /\ result' = NoResult
            /\ pc' = "range"
    /\ layer_outputs' = <<>>
    /\ n_layers' = 0
    /\ layer' = 0
    /\ layer_agents' = <<>>
    /\ agent_i' = 0
    /\ current_layer_outputs' = <<>>
    /\ calls' = <<>>
    /\ replies' = <<>>
    /\ last_query' = NoQuery
    /\ updates' = 0
    /\ UNCHANGED valves

\* line 95: range(self.valves.num_layers) is evaluated once.
ForRange ==
    /\ pc = "range"
    /\ n_layers' = valves.num_layers
    /\ layer' = 0
    /\ pc' = "for_layer"
    /\ UNCHANGED <<valves, prompt, layer_agents, agent_i, layer_outputs,
                   current_layer_outputs, calls, replies, last_query, result,
                   start_valves, updates>>

\* line 99: the size of a layer's sample.
SampleSize(v) == Min(v.num_agents_per_layer, Len(v.available_models))

\* lines 96-100: the head of one layer.
SampleAgents ==
    /\ pc = "for_layer"
    /\ layer < n_layers
    /\ IF SampleSize(valves) < 0
       THEN /\ pc' = "raised"
            /\ result' = <<"ValueError">>
            /\ UNCHANGED <<layer_agents, agent_i, current_layer_outputs>>
       ELSE /\ layer_agents' \in RandomSample(valves.available_models, SampleSize(valves))
            /\ current_layer_outputs' = <<>>
            /\ agent_i' = 1
            /\ pc' = "for_agent"
            /\ UNCHANGED result
    /\ UNCHANGED <<valves, prompt, n_layers, layer, layer_outputs, calls,
                   replies, last_query, start_valves, updates>>

\* Variant: every layer queries the sampled agent.
AgentModel_Sampled == layer_agents[agent_i]

RECURSIVE Flatten(_, _)
Flatten(lists, n) == IF n = 0 THEN <<>> ELSE Flatten(lists, n - 1) \o lists[n]

\* Variant: the aggregation prompt is built from the whole history.
AgentPrompt_FullHistory ==
    IF layer = 0 THEN prompt
    ELSE create_aggregator_prompt(prompt, Flatten(layer_outputs, Len(layer_outputs)))

\* lines 103-111: the backend and the prompt of the next agent's call.
AgentModel == IF layer = 0 THEN layer_agents[agent_i] ELSE valves.aggregator_model

AgentPrompt ==
    IF layer = 0 THEN prompt
    ELSE create_aggregator_prompt(prompt, layer_outputs[Len(layer_outputs)])

\* lines 102-111 and 147-155: the next agent's request is posted.
QueryAgent ==
    /\ pc = "for_agent"
    /\ agent_i <= Len(layer_agents)
    /\ calls' = Append(calls,
                  Request(valves, AgentModel, AgentPrompt, "layer", layer, agent_i))
    /\ pc' = "agent_http"
    /\ UNCHANGED <<valves, prompt, n_layers, layer, layer_agents, agent_i,
                   layer_outputs, current_layer_outputs, replies, last_query,
                   result, start_valves, updates>>

Failures == Cardinality({i \in 1..Len(replies) : replies[i].failed})

\* The outcomes the backend may still produce in this run.
Allowed(outcome) == outcome = "ok" \/ Failures < MaxFailures

Reply(outcome, end) == [failed |-> outcome # "ok", end |-> end]

\* Variant: the response is put in front (insert(0, response)).
Collect_Front(outputs, response) == <<response>> \o outputs

\* line 113: current_layer_outputs.append(response)
Collect(outputs, response) == Append(outputs, response)

\* lines 155-160 and 113: the attempt ends and the response is collected.
AgentReturn ==
    /\ pc = "agent_http"
    /\ \E outcome \in Outcomes, text \in Texts :
         \E end \in query_ollama(calls[Len(calls)].model, outcome, text) :
           /\ Allowed(outcome)
           /\ last_query' = [model |-> calls[Len(calls)].model,
                             outcome |-> outcome, end |-> end]
           /\ replies' = Append(replies, Reply(outcome, end))
           /\ IF end.kind = "raise"
              THEN /\ pc' = "raised"
                   /\ result' = end.value
                   /\ UNCHANGED <<current_layer_outputs, agent_i>>
              ELSE /\ current_layer_outputs' = Collect(current_layer_outputs, end.value)
                   /\ agent_i' = agent_i + 1
                   /\ pc' = "for_agent"
                   /\ UNCHANGED result
    /\ UNCHANGED <<valves, prompt, n_layers, layer, layer_agents,
                   layer_outputs, calls, start_valves, updates>>

\* line 115: the layer's output joins the history.
AppendLayer ==
    /\ pc = "for_agent"
    /\ agent_i > Len(layer_agents)
    /\ layer_outputs' = Append(layer_outputs, current_layer_outputs)
    /\ layer' = layer + 1
    /\ pc' = "for_layer"
    /\ UNCHANGED <<valves, prompt, n_layers, layer_agents, agent_i,
                   current_layer_outputs, calls, replies, last_query, result,
                   start_valves, updates>>

\* Variant: the final synthesis does not wait for the layers.
LoopDone_Early == TRUE

\* line 95: the layer loop is exhausted.
LoopDone == layer >= n_layers

\* lines 117-118 and 147-155: the final synthesis request is posted.
QueryFinal ==
    /\ pc = "for_layer"
    /\ LoopDone
    /\ calls' = Append(calls,
                  Request(valves, valves.aggregator_model,
                          create_final_aggregator_prompt(prompt, layer_outputs),
                          "final", layer, 0))
    /\ pc' = "final_http"
    /\ UNCHANGED <<valves, prompt, n_layers, layer, layer_agents, agent_i,
                   layer_outputs, current_layer_outputs, replies, last_query,
                   result, start_valves, updates>>

\* lines 155-160 and 118-120: the final attempt ends, its response is returned.
FinalReturn ==
    /\ pc = "final_http"
    /\ \E outcome \in Outcomes, text \in Texts :
         \E end \in query_ollama(calls[Len(calls)].model, outcome, text) :
           /\ Allowed(outcome)
           /\ last_query' = [model |-> calls[Len(calls)].model,
                             outcome |-> outcome, end |-> end]
           /\ replies' = Append(replies, Reply(outcome, end))
           /\ result' = end.value
           /\ pc' = IF end.kind = "raise" THEN "raised" ELSE "returned"
    /\ UNCHANGED <<valves, prompt, n_layers, layer, layer_agents, agent_i,
                   layer_outputs, current_layer_outputs, calls, start_valves, updates>>

\* Valves the host may install while a run is in flight.
Cleared ==
    [available_models |-> <<>>, aggregator_model |-> "", openai_api_base |-> "",
     api_key |-> "k", num_layers |-> 0, num_agents_per_layer |-> 1]

Widened ==
    [available_models |-> <<"G", "A">>, aggregator_model |-> "A",
     openai_api_base |-> "http://other/v1", api_key |-> "k",
     num_layers |-> MaxLayers, num_agents_per_layer |-> MaxAgents]

\* The host replaces self.valves while a run is in flight (valves is a
\* plain attribute; on_valves_updated is the notification).
UpdateValves ==
    /\ ~Done
    /\ updates < MaxUpdates
    /\ updates' = updates + 1
    /\ \E v \in {Cleared, Widened} : valves' = v
    /\ valves' # valves
    /\ UNCHANGED <<pc, prompt, n_layers, layer, layer_agents, agent_i,
                   layer_outputs, current_layer_outputs, calls, replies,
                   last_query, result, start_valves>>

Next ==
    \/ MoaCheck
    \/ ForRange
    \/ SampleAgents
    \/ QueryAgent
    \/ AgentReturn
    \/ AppendLayer
    \/ QueryFinal
    \/ FinalReturn

\* Invocations on a host that runs each to completion (inlet is a coroutine
\* and moa_process never awaits).
Spec == Init /\ [][Next]_vars

NextLive == Next \/ UpdateValves

\* Invocations on a host whose valve updates interleave with a run.
SpecLive == Init /\ [][NextLive]_vars

\* ===================================================== properties

LayerCalls(L) ==
    {i \in 1..Len(calls) : calls[i].stage = "layer" /\ calls[i].layer = L}

FinalCalls == {i \in 1..Len(calls) : calls[i].stage = "final"}

\* The index in the log of the j-th call of layer L.
NthLayerCall(L, j) ==
    CHOOSE i \in LayerCalls(L) : Cardinality({k \in LayerCalls(L) : k <= i}) = j

StartUnset ==
    \/ start_valves.available_models = <<>>
    \/ start_valves.aggregator_model = ""
    \/ start_valves.openai_api_base = ""

\* C1: every finished query_ollama call returned a string, and after a
\* failed attempt that string is the placeholder naming the backend.
C1_QueryNeverRaises ==
    last_query.outcome # "none" =>
        /\ last_query.end.kind = "return"
        /\ last_query.outcome # "ok" =>
             last_query.end.value =
                <<"Error: Unable to query model ", last_query.model>>

\* C2: a run entered with no available models, no aggregator or no endpoint
\* base returns the configuration error with no request posted and no layer
\* output built; a run entered with all three set never returns it.
C2_FailFast ==
    pc # "idle" =>
        IF StartUnset
        THEN /\ pc = "returned"
             /\ result = ConfigError
             /\ calls = <<>>
             /\ replies = <<>>
             /\ layer_outputs = <<>>
             /\ current_layer_outputs = <<>>
        ELSE result # ConfigError

C2_Witness ==
    /\ pc = "returned"
    /\ result = ConfigError
    /\ start_valves.available_models = <<>>
    /\ start_valves.aggregator_model # ""
    /\ start_valves.openai_api_base # ""

\* C3: a run of a valid configuration that has ended has returned, with one
\* layer output per configured layer, and every failed layer call holds its
\* own slot of its layer's output as the placeholder.
C3_AllLayersRun ==
    ( /\ ~StartUnset
      /\ start_valves.num_layers >= 1
      /\ start_valves.num_agents_per_layer >= 1
      /\ pc \in {"returned", "raised"} ) =>
        /\ pc = "returned"
        /\ Len(layer_outputs) = start_valves.num_layers
        /\ \A i \in 1..Len(replies) :
             (replies[i].failed /\ calls[i].stage = "layer") =>
                layer_outputs[calls[i].layer + 1][calls[i].slot]
                  = <<"Error: Unable to query model ", calls[i].model>>

\* C4 as stated: every completed layer after the first issued exactly
\* num_agents_per_layer calls, all to the aggregator.
C4_Original ==
    \A l \in 2..Len(layer_outputs) :
        /\ Cardinality(LayerCalls(l - 1)) = valves.num_agents_per_layer
        /\ \A i \in LayerCalls(l - 1) : calls[i].model = valves.aggregator_model

\* C4 as amended: every completed layer after the first issued exactly
\* min(num_agents_per_layer, len(available_models)) calls, all to the
\* aggregator, whatever the layer's sample was.
C4_AggregatorLayers ==
    \A l \in 2..Len(layer_outputs) :
        /\ Cardinality(LayerCalls(l - 1))
             = Min(valves.num_agents_per_layer, Len(valves.available_models))
        /\ \A i \in LayerCalls(l - 1) : calls[i].model = valves.aggregator_model

C4_Witness ==
    /\ pc = "for_layer"
    /\ layer >= 2
    /\ Cardinality(LayerCalls(layer - 1)) = 2
    /\ \E j \in 1..Len(layer_agents) : layer_agents[j] # valves.aggregator_model

\* C5: every completed layer's output has min(num_agents_per_layer,
\* len(available_models)) entries, the j-th being the response of the j-th
\* call the layer made.
C5_LayerOutputs ==
    \A l \in 1..Len(layer_outputs) :
        /\ Len(layer_outputs[l])
             = Min(valves.num_agents_per_layer, Len(valves.available_models))
        /\ Cardinality(LayerCalls(l - 1)) = Len(layer_outputs[l])
        /\ \A j \in 1..Len(layer_outputs[l]) :
             replies[NthLayerCall(l - 1, j)].end = Returned(layer_outputs[l][j])

\* A two-entry layer output whose entries differ (one agent failed).
C5_Witness ==
    \E l \in 1..Len(layer_outputs) :
        /\ Len(layer_outputs[l]) = 2
        /\ layer_outputs[l][1] # layer_outputs[l][2]

Range(f) == {f[i] : i \in DOMAIN f}

\* A completed run of one layer whose sample is not clamped.
C6_Case ==
    /\ pc = "returned"
    /\ ~StartUnset
    /\ valves.num_layers = 1
    /\ valves.num_agents_per_layer >= 0
    /\ valves.num_agents_per_layer <= Len(valves.available_models)

\* C6 as stated: such a run made exactly num_agents_per_layer calls, each
\* with the original prompt, to pairwise distinct available backends.
C6_Original ==
    C6_Case =>
        /\ Len(calls) = valves.num_agents_per_layer
        /\ \A i \in 1..Len(calls) :
             /\ calls[i].content = prompt
             /\ calls[i].model \in Range(valves.available_models)
        /\ \A i, j \in 1..Len(calls) : i # j => calls[i].model # calls[j].model

\* C6 as amended: such a run made exactly num_agents_per_layer calls in its
\* layer, each with the original prompt, to the backends at pairwise
\* distinct positions of available_models, and one more call, the final
\* synthesis.
C6_SingleLayer ==
    C6_Case =>
        /\ Cardinality(LayerCalls(0)) = valves.num_agents_per_layer
        /\ Len(calls) = valves.num_agents_per_layer + 1
        /\ calls[Len(calls)].stage = "final"
        /\ \A i \in LayerCalls(0) : calls[i].content = prompt
        /\ \E f \in [LayerCalls(0) -> 1..Len(valves.available_models)] :
             /\ \A i, j \in LayerCalls(0) : i # j => f[i] # f[j]
             /\ \A i \in LayerCalls(0) :
                  calls[i].model = valves.available_models[f[i]]
        /\ (\A a, b \in 1..Len(valves.available_models) :
               a # b => valves.available_models[a] # valves.available_models[b])
             => \A i, j \in LayerCalls(0) : i # j => calls[i].model # calls[j].model

C6_Witness ==
    /\ C6_Case
    /\ valves.num_agents_per_layer = 2
    /\ Range(valves.available_models) = {"A", "G"}
    /\ Cardinality(LayerCalls(0)) = 2

\* Where, in an aggregation prompt over previous, the i-th item starts.
RECURSIVE ItemStart(_, _, _, _)
ItemStart(first, width, previous, i) ==
    IF i = 1 THEN first
    ELSE ItemStart(first, width, previous, i - 1) + width + Len(previous[i - 1])

\* s holds, from position at, the number n, a dot and the text r, closed
\* by a blank line.
ItemAt(s, at, n, r) ==
    /\ at + Len(r) + 2 <= Len(s)
    /\ s[at] = ToString(n)
    /\ s[at + 1] = ". "
    /\ SubSeq(s, at + 2, at + 1 + Len(r)) = r
    /\ s[at + 2 + Len(r)] = "\n\n"

\* s is the original prompt as context, then previous enumerated 1..N in
\* order, then the instruction, and nothing else.
IsLayerPrompt(s, previous) ==
    LET first == Len(prompt) + 3
        N == Len(previous)
        end == ItemStart(first, 3, previous, N + 1)
    IN /\ Len(s) = end
       /\ s[1] = "Original prompt: "
       /\ SubSeq(s, 2, Len(prompt) + 1) = prompt
       /\ s[Len(prompt) + 2] = "\n\nPrevious responses:\n"
       /\ \A i \in 1..N : ItemAt(s, ItemStart(first, 3, previous, i), i, previous[i])
       /\ s[end] = AggregatorTail[1]

\* C7: the prompt of every call of a layer after the first is the original
\* prompt, the responses of the layer just before it numbered 1..N in that
\* layer's order, the instruction, and nothing else; the calls of one layer
\* carry the same prompt.
C7_LayerPrompt ==
    \A i \in 1..Len(calls) :
        (calls[i].stage = "layer" /\ calls[i].layer > 0) =>
            /\ IsLayerPrompt(calls[i].content, layer_outputs[calls[i].layer])
            /\ \A j \in LayerCalls(calls[i].layer) :
                 calls[j].content = calls[i].content

\* A call of the third layer, made when the first two layers differ.
C7_Witness ==
    \E i \in 1..Len(calls) :
        /\ calls[i].stage = "layer"
        /\ calls[i].layer = 2
        /\ Len(layer_outputs[2]) = 2
        /\ layer_outputs[1] # layer_outputs[2]
        /\ layer_outputs[2][1] # layer_outputs[2][2]

\* Where, in a final prompt over history, the heading of layer l starts.
RECURSIVE LayerStart(_, _)
LayerStart(history, l) ==
    IF l = 1 THEN Len(prompt) + 3
    ELSE ItemStart(LayerStart(history, l - 1) + 3, 4, history[l - 1],
                   Len(history[l - 1]) + 1)

\* s is the original prompt as context, then for every layer of history,
\* in order, its 1-based heading and its responses numbered 1..N, then the
\* instruction holding the original prompt once more, and nothing else.
IsFinalPrompt(s, history) ==
    LET tail == LayerStart(history, Len(history) + 1)
    IN /\ Len(s) = tail + Len(prompt) + 1
       /\ s[1] = "Original prompt: "
       /\ SubSeq(s, 2, Len(prompt) + 1) = prompt
       /\ s[Len(prompt) + 2] = "\n\nResponses from all layers:\n"
       /\ \A l \in 1..Len(history) :
            LET at == LayerStart(history, l)
            IN /\ s[at] = "Layer "
               /\ s[at + 1] = ToString(l)
               /\ s[at + 2] = ":\n"
               /\ \A j \in 1..Len(history[l]) :
                    LET item == ItemStart(at + 3, 4, history[l], j)
                    IN /\ s[item] = "  "
                       /\ ItemAt(s, item + 1, j, history[l][j])
       /\ s[tail] = "Considering all the responses from different layers and the original prompt '"
       /\ SubSeq(s, tail + 1, tail + Len(prompt)) = prompt
       /\ s[tail + Len(prompt) + 1] = "', provide a final, comprehensive answer that strictly adheres to the original request:"

\* C8: the prompt of the final synthesis call holds every response of every
\* layer, grouped by 1-based layer number in layer order and numbered 1..N
\* within the layer, and the original prompt twice: as leading context and
\* inside the closing instruction.
C8_FinalPrompt ==
    \A i \in FinalCalls : IsFinalPrompt(calls[i].content, layer_outputs)

\* A final call over three layers that are not all alike.
C8_Witness ==
    \E i \in FinalCalls :
        /\ Len(layer_outputs) = 3
        /\ Len(layer_outputs[3]) = 2
        /\ layer_outputs[1] # layer_outputs[3]
        /\ layer_outputs[2] # layer_outputs[3]

\* Call a comes before call b in the order of moa_process.
Precedes(a, b) ==
    /\ a.stage = "layer"
    /\ \/ b.stage = "final"
       \/ a.layer < b.layer
       \/ (a.layer = b.layer /\ a.slot < b.slot)

\* C9: calls go out one at a time in layer order, each once; a call of a
\* layer goes out only when every earlier layer's calls have returned and
\* its output is in the history; the final call is the last, goes to the
\* aggregator once all layers are in the history, and its response is what
\* a completed run returns.
C9_StrictOrder ==
    /\ \A i \in 1..(Len(calls) - 1) : Precedes(calls[i], calls[i + 1])
    /\ Len(replies) = IF pc \in {"agent_http", "final_http"}
                      THEN Len(calls) - 1 ELSE Len(calls)
    /\ \A i \in 1..Len(calls) :
         LET done == IF calls[i].stage = "final" THEN valves.num_layers
                     ELSE calls[i].layer
         IN /\ Len(layer_outputs) >= done
            /\ calls[i].stage = "final" =>
                 /\ Len(layer_outputs) = done
                 /\ calls[i].model = valves.aggregator_model
            /\ \A L \in 0..(done - 1) :
                 /\ Cardinality(LayerCalls(L)) = Len(layer_outputs[L + 1])
                 /\ \A k \in LayerCalls(L) : k < i /\ replies[k].end.kind = "return"
    /\ (pc = "returned" /\ ~StartUnset) =>
         /\ Cardinality(FinalCalls) = 1
         /\ replies[Len(calls)].end = Returned(result)

\* A completed run of two layers or more in which a call failed.
C9_Witness ==
    /\ pc = "returned"
    /\ Len(layer_outputs) >= 2
    /\ Cardinality(LayerCalls(1)) = 2
    /\ \E i \in 1..Len(replies) : replies[i].failed

\* The history holds nothing but the responses to the current run's own
\* layer calls.
HistoryOwn ==
    /\ Len(layer_outputs) <= layer
    /\ \A l \in 1..Len(layer_outputs) :
         /\ Cardinality(LayerCalls(l - 1)) = Len(layer_outputs[l])
         /\ \A j \in 1..Len(layer_outputs[l]) :
              replies[NthLayerCall(l - 1, j)].end = Returned(layer_outputs[l][j])

ReadAtUse ==
    /\ (Done /\ ~(pc' = "idle")) =>
         /\ layer_outputs' = <<>>
         /\ (pc' = "returned") =
              (\/ valves.available_models = <<>>
               \/ valves.aggregator_model = ""
               \/ valves.openai_api_base = "")
    /\ (pc = "range" /\ pc' = "for_layer") => n_layers' = valves.num_layers
    /\ (~Done /\ pc # "range") => n_layers' = n_layers
    /\ (pc = "for_layer" /\ pc' = "for_agent") =>
         /\ Len(layer_agents')
              = Min(valves.num_agents_per_layer, Len(valves.available_models))
         /\ Range(layer_agents') \subseteq Range(valves.available_models)
    /\ (~Done /\ Len(calls') = Len(calls) + 1) =>
         LET c == calls'[Len(calls')]
         IN /\ c.url = Str(valves.openai_api_base) \o <<"/chat/completions">>
            /\ c.authorization = <<"Bearer ">> \o Str(valves.api_key)
            /\ (c.stage = "final" \/ c.layer > 0) =>
                 c.model = valves.aggregator_model

====
